---- MODULE Spec2Model ----
(***************************************************************************)
(* A model of the Mandelbrot renderer of src/mandlebrot/src/main.rs:       *)
(* escape_time, parse_pair, pixel_to_point, render and the band scheduler  *)
(* of main().                                                              *)
(*                                                                         *)
(* f64 and f32 values are modelled bit-exactly as binary floating point    *)
(* numbers with 53 and 24 significant bits and round-to-nearest-even.      *)
(* Significands are arbitrary-size naturals kept as little-endian limb     *)
(* sequences, because a 53-bit significand does not fit a TLC integer.     *)
(***************************************************************************)
EXTENDS Integers, Sequences, FiniteSets, TLC

(***************************************************************************)
(* Naturals of arbitrary size: little-endian sequences of 14-bit limbs in  *)
(* 0..LimbBase-1 with no leading (most significant) zero limb; <<>> is 0.  *)
(***************************************************************************)
LimbBase == 2^14

Pow2(k) == 2^k

RECURSIVE BNorm(_)
BNorm(a) ==
  IF a = <<>> THEN <<>>
  ELSE IF a[Len(a)] = 0 THEN BNorm(SubSeq(a, 1, Len(a) - 1))
  ELSE a

RECURSIVE BFromNat(_)
BFromNat(n) ==
  IF n = 0 THEN <<>> ELSE <<n % LimbBase>> \o BFromNat(n \div LimbBase)

RECURSIVE BToNat(_)
BToNat(a) ==
  IF a = <<>> THEN 0 ELSE a[1] + LimbBase * BToNat(Tail(a))

BHead(a) == IF a = <<>> THEN 0 ELSE a[1]
BTail(a) == IF a = <<>> THEN <<>> ELSE Tail(a)

RECURSIVE BAddC(_, _, _)
BAddC(a, b, c) ==
  IF a = <<>> /\ b = <<>>
  THEN (IF c = 0 THEN <<>> ELSE <<c>>)
  ELSE LET x == BHead(a) + BHead(b) + c
       IN  <<x % LimbBase>> \o BAddC(BTail(a), BTail(b), x \div LimbBase)

BAdd(a, b) == BAddC(a, b, 0)

\* a - b for a >= b
RECURSIVE BSubC(_, _, _)
BSubC(a, b, c) ==
  IF a = <<>> THEN <<>>
  ELSE LET x == a[1] - BHead(b) - c
       IN  IF x < 0
           THEN <<x + LimbBase>> \o BSubC(Tail(a), BTail(b), 1)
           ELSE <<x>> \o BSubC(Tail(a), BTail(b), 0)

BSub(a, b) == BNorm(BSubC(a, b, 0))

RECURSIVE BMulSmallC(_, _, _)
BMulSmallC(a, d, c) ==
  IF a = <<>> THEN (IF c = 0 THEN <<>> ELSE <<c>>)
  ELSE LET x == a[1] * d + c
       IN  <<x % LimbBase>> \o BMulSmallC(Tail(a), d, x \div LimbBase)

\* a * d for 0 <= d < LimbBase
BMulSmall(a, d) == IF d = 0 THEN <<>> ELSE BMulSmallC(a, d, 0)

RECURSIVE BMul(_, _)
BMul(a, b) ==
  IF a = <<>> \/ b = <<>> THEN <<>>
  ELSE LET rest == BMul(a, Tail(b))
       IN  BAdd(BMulSmall(a, b[1]),
                IF rest = <<>> THEN <<>> ELSE <<0>> \o rest)

\* -1, 0, 1 as a < b, a = b, a > b
RECURSIVE BCmpFrom(_, _, _)
BCmpFrom(a, b, i) ==
  IF i = 0 THEN 0
  ELSE IF a[i] < b[i] THEN -1
  ELSE IF a[i] > b[i] THEN 1
  ELSE BCmpFrom(a, b, i - 1)

BCmp(a, b) ==
  IF Len(a) < Len(b) THEN -1
  ELSE IF Len(a) > Len(b) THEN 1
  ELSE BCmpFrom(a, b, Len(a))

\* quotient and remainder of a by d, 1 <= d < LimbBase
RECURSIVE BDivSmallFrom(_, _, _, _)
BDivSmallFrom(a, d, i, r) ==
  IF i = 0 THEN [q |-> <<>>, r |-> r]
  ELSE LET x    == r * LimbBase + a[i]
           rest == BDivSmallFrom(a, d, i - 1, x % d)
       IN  [q |-> rest.q \o <<x \div d>>, r |-> rest.r]

BDivSmall(a, d) ==
  LET res == BDivSmallFrom(a, d, Len(a), 0)
  IN  [q |-> BNorm(res.q), r |-> res.r]

RECURSIVE NatBitLen(_)
NatBitLen(n) == IF n = 0 THEN 0 ELSE 1 + NatBitLen(n \div 2)

BBitLen(a) ==
  IF a = <<>> THEN 0 ELSE (Len(a) - 1) * 14 + NatBitLen(a[Len(a)])

Zeros(n) == [i \in 1..n |-> 0]

\* a * 2^k
BShl(a, k) ==
  IF a = <<>> \/ k = 0 THEN a
  ELSE IF k % 14 = 0 THEN Zeros(k \div 14) \o a
  ELSE Zeros(k \div 14) \o BMulSmall(a, Pow2(k % 14))

\* floor(a / 2^k)
BShr(a, k) ==
  LET drop == k \div 14
  IN  IF k = 0 THEN a
      ELSE IF drop >= Len(a) THEN <<>>
      ELSE IF k % 14 = 0 THEN SubSeq(a, drop + 1, Len(a))
      ELSE BDivSmall(SubSeq(a, drop + 1, Len(a)), Pow2(k % 14)).q

BIsOdd(a) == a # <<>> /\ a[1] % 2 = 1

\* number of trailing zero bits of a # 0
RECURSIVE NatTrailing(_)
NatTrailing(n) == IF n % 2 = 1 THEN 0 ELSE 1 + NatTrailing(n \div 2)

RECURSIVE BTrailing(_)
BTrailing(a) ==
  IF a[1] = 0 THEN 14 + BTrailing(Tail(a)) ELSE NatTrailing(a[1])

(***************************************************************************)
(* Dyadic rationals (-1)^s * m * 2^e, kept canonical: m is odd, or the     *)
(* value is DZero.  Equality of records is equality of values.  Signed     *)
(* zeros are not distinguished (Rust compares -0.0 == 0.0 as equal and no  *)
(* operation of the program divides by zero); infinities and NaN are not   *)
(* values of the model, and exponents are unbounded: every value the model *)
(* computes lies far inside the normal range of f32 and f64.               *)
(***************************************************************************)
DZero == [s |-> 0, m |-> <<>>, e |-> 0]

DCanon(s, m, e) ==
  IF m = <<>> THEN DZero
  ELSE LET t == BTrailing(m)
       IN  [s |-> s, m |-> BShr(m, t), e |-> e + t]

DFromInt(n) ==
  IF n >= 0 THEN DCanon(0, BFromNat(n), 0) ELSE DCanon(1, BFromNat(-n), 0)

DNeg(x) == IF x.m = <<>> THEN x ELSE [x EXCEPT !.s = 1 - x.s]

\* exact sum
DAdd(x, y) ==
  IF x.m = <<>> THEN y
  ELSE IF y.m = <<>> THEN x
  ELSE LET e  == IF x.e < y.e THEN x.e ELSE y.e
           mx == BShl(x.m, x.e - e)
           my == BShl(y.m, y.e - e)
           c  == BCmp(mx, my)
       IN  IF x.s = y.s THEN DCanon(x.s, BAdd(mx, my), e)
           ELSE IF c = 0 THEN DZero
           ELSE IF c > 0 THEN DCanon(x.s, BSub(mx, my), e)
           ELSE DCanon(y.s, BSub(my, mx), e)

DSub(x, y) == DAdd(x, DNeg(y))

\* exact product
DMul(x, y) ==
  IF x.m = <<>> \/ y.m = <<>> THEN DZero
  ELSE DCanon((x.s + y.s) % 2, BMul(x.m, y.m), x.e + y.e)

\* -1, 0, 1 as x < y, x = y, x > y
DCmp(x, y) ==
  LET d == DSub(x, y)
  IN  IF d.m = <<>> THEN 0 ELSE IF d.s = 1 THEN -1 ELSE 1

DGt(x, y) == DCmp(x, y) > 0

\* (-1)^s * m * 2^e rounded to p significant bits, ties to even
RoundBits(p, s, m, e) ==
  LET L == BBitLen(m)
  IN  IF L <= p THEN DCanon(s, m, e)
      ELSE LET k    == L - p
               q    == BShr(m, k)
               r    == BSub(m, BShl(q, k))
               c    == BCmp(r, BShl(<<1>>, k - 1))
               up   == c > 0 \/ (c = 0 /\ BIsOdd(q))
           IN  DCanon(s, IF up THEN BAdd(q, <<1>>) ELSE q, e + k)

RoundTo(p, x) == RoundBits(p, x.s, x.m, x.e)

\* whether x is a value of the format with p significant bits
Representable(p, x) == BBitLen(x.m) <= p

(***************************************************************************)
(* IEEE-754 arithmetic of precision p: each operation is the exact result  *)
(* rounded once.                                                           *)
(***************************************************************************)
FAdd(p, x, y) == RoundTo(p, DAdd(x, y))
FSub(p, x, y) == RoundTo(p, DSub(x, y))
FMul(p, x, y) == RoundTo(p, DMul(x, y))

\* x / n for an integer 1 <= n < LimbBase (every divisor of the program is
\* an integer converted to floating point: `bounds.0 as f64`, `10000.0`)
FDivInt(p, x, n) ==
  IF x.m = <<>> THEN DZero
  ELSE LET sh == p + 2 + NatBitLen(n)
           d  == BDivSmall(BShl(x.m, sh), n)
           m2 == BAdd(BMulSmall(d.q, 2), IF d.r = 0 THEN <<>> ELSE <<1>>)
       IN  RoundBits(p, x.s, m2, x.e - sh - 1)

\* `n as f64`, `n as f32` of an unsigned integer
FFromInt(p, n) == RoundTo(p, DFromInt(n))

\* the decimal literal n / 10^k (what f64::from_str gives for its digits)
FDec(p, n, k) ==
  IF n >= 0 THEN FDivInt(p, DFromInt(n), 10^k)
  ELSE DNeg(FDivInt(p, DFromInt(-n), 10^k))

\* `x as u8` of a float: truncation toward zero, saturating
FToU8(x) ==
  IF x.m = <<>> \/ x.s = 1 THEN 0
  ELSE IF BBitLen(x.m) + x.e > 8 THEN 255
  ELSE IF x.e >= 0 THEN BToNat(BShl(x.m, x.e))
  ELSE BToNat(BShr(x.m, 0 - x.e))

\* f64 and f32 significand widths
F64 == 53
F32 == 24

(***************************************************************************)
(* Option<T>                                                               *)
(***************************************************************************)
None == [some |-> FALSE]
Some(v) == [some |-> TRUE, v |-> v]

(***************************************************************************)
(* num::Complex<f64>: z * z + c and norm_sqr, each component operation an  *)
(* f64 operation.                                                          *)
(***************************************************************************)
Complex(re, im) == [re |-> re, im |-> im]

CMul(a, b) ==
  Complex(FSub(F64, FMul(F64, a.re, b.re), FMul(F64, a.im, b.im)),
          FAdd(F64, FMul(F64, a.re, b.im), FMul(F64, a.im, b.re)))

CAdd(a, b) == Complex(FAdd(F64, a.re, b.re), FAdd(F64, a.im, b.im))

norm_sqr(z) == FAdd(F64, FMul(F64, z.re, z.re), FMul(F64, z.im, z.im))

\* a variant of Escaped that also counts the circle itself as outside
EscapedOnCircle(z) == DCmp(norm_sqr(z), DFromInt(4)) >= 0

\* the escape test of the loop body: z.norm_sqr() > 4.0
Escaped(z) == DGt(norm_sqr(z), DFromInt(4))

\* the body of `for i in i..limit` with z the value before iteration i
RECURSIVE EscapeLoop(_, _, _, _)
EscapeLoop(z, c, i, limit) ==
  IF i >= limit THEN None
  ELSE LET z2 == CAdd(CMul(z, z), c)
       IN  IF Escaped(z2) THEN Some(i) ELSE EscapeLoop(z2, c, i + 1, limit)

\* a variant of escape_time that reports the iterations left, not those used
escape_time_remaining(c, limit) ==
  LET r == EscapeLoop(Complex(DZero, DZero), c, 0, limit)
  IN  IF r.some THEN Some(limit - 1 - r.v) ELSE r

escape_time(c, limit) == EscapeLoop(Complex(DZero, DZero), c, 0, limit)

(***************************************************************************)
(* pixel_to_point: bounds and pixel are pairs <<.0, .1>>.                  *)
(***************************************************************************)
\* a variant of pixel_to_point without the Y flip
pixel_to_point_unflipped(bounds, pixel, upper_left, lower_right) ==
  LET width  == FSub(F64, lower_right.re, upper_left.re)
      height == FSub(F64, upper_left.im, lower_right.im)
  IN  Complex(
        FAdd(F64, upper_left.re,
             FDivInt(F64, FMul(F64, FFromInt(F64, pixel[1]), width), bounds[1])),
        FAdd(F64, upper_left.im,
             FDivInt(F64, FMul(F64, FFromInt(F64, pixel[2]), height), bounds[2])))

pixel_to_point(bounds, pixel, upper_left, lower_right) ==
  LET width  == FSub(F64, lower_right.re, upper_left.re)
      height == FSub(F64, upper_left.im, lower_right.im)
  IN  Complex(
        FAdd(F64, upper_left.re,
             FDivInt(F64, FMul(F64, FFromInt(F64, pixel[1]), width), bounds[1])),
        FSub(F64, upper_left.im,
             FDivInt(F64, FMul(F64, FFromInt(F64, pixel[2]), height), bounds[2])))

(***************************************************************************)
(* The colour render() stores for one pixel.  Colours are triples of u8.   *)
(* Lerp is the lerp crate's generic implementation for f32,                *)
(* self * (1 - t) + other * t.                                             *)
(***************************************************************************)
RenderLimit == 10000

Lerp(self, other, t) ==
  FAdd(F32, FMul(F32, self, FSub(F32, DFromInt(1), t)), FMul(F32, other, t))

Scalar(point) ==
  LET et == escape_time(point, RenderLimit)
  IN  IF ~et.some THEN DZero
      ELSE FDivInt(F32,
                   FSub(F32, FFromInt(F32, RenderLimit), FFromInt(F32, et.v)),
                   RenderLimit)

PixelColor(bounds, column, row, upper_left, lower_right, lower_color, upper_color) ==
  LET point  == pixel_to_point(bounds, <<column, row>>, upper_left, lower_right)
      scalar == Scalar(point)
  IN  [i \in 1..3 |->
        FToU8(Lerp(FFromInt(F32, lower_color[i]), FFromInt(F32, upper_color[i]), scalar))]

(***************************************************************************)
(* The program state: main()'s locals, the pixel buffer, and one record    *)
(* per band worker spawned inside crossbeam::scope.                        *)
(***************************************************************************)
VARIABLES
  bounds,       \* <<width, height>>, parsed from args[2]
  upper_left,   \* Complex, parsed from args[3]
  lower_right,  \* Complex, parsed from args[4]
  lower_col,    \* <<r, g, b>>, parsed from args[5]
  upper_col,    \* <<r, g, b>>, parsed from args[6]
  threads,      \* num_cpus::get()
  pixels,       \* the Vec<Rgb<u8>>; pixels[k + 1] is element k
  bands,        \* the chunks of pixels.chunks_mut(..): [start, len]
  next_band,    \* the index i the spawning loop is at
  workers,      \* the spawned closures, in band order
  pc,           \* where the main thread is
  err,          \* why the main thread panicked, "" if it has not
  img,          \* the RgbImage built from the buffer, <<>> before
  written,      \* history: for each element, the bands that stored into it
  call          \* a call of one of the pure functions and its result

vars == <<bounds, upper_left, lower_right, lower_col, upper_col, threads,
          pixels, bands, next_band, workers, pc, err, img, written, call>>

renderVars == <<bounds, upper_left, lower_right, lower_col, upper_col, threads,
                pixels, bands, next_band, workers, pc, err, img, written>>

\* bounds of the inputs the model draws
MaxWidth == 2
MaxHeight == 4
MaxThreads == 3

\* The decimal argument texts "RE,IM" the corners are parsed from.
\* Both rectangles lie outside the Mandelbrot set, so every pixel
\* escapes within a few iterations of the 10000 allowed.
Rects ==
  { [ul |-> Complex(FDec(F64, -12, 1), FDec(F64, 30, 1)),     \* -1.2,3.0
     lr |-> Complex(FDec(F64, -10, 1), FDec(F64, 2, 1))],     \* -1.0,0.2
    [ul |-> Complex(FDec(F64, 5, 1), FDec(F64, 15, 1)),       \* 0.5,1.5
     lr |-> Complex(FDec(F64, 15, 1), FDec(F64, 5, 1))] }     \* 1.5,0.5

ColorPairs == { [lower |-> <<0, 0, 0>>, upper |-> <<255, 128, 64>>] }

Black == <<0, 0, 0>>
NoCall == [fn |-> "none"]

\* variants of RowsPerBand: two rows of slack, and no slack unless needed
RowsPerBandPlusTwo(height, nthreads) == height \div nthreads + 2
RowsPerBandNoSlack(height, nthreads) ==
  IF height \div nthreads = 0 THEN 1 ELSE height \div nthreads

\* let rows_per_band = bounds.1 / threads + 1
RowsPerBand(height, nthreads) == height \div nthreads + 1

\* a variant of ChunksMut that yields only the full chunks (chunks_exact_mut)
ChunksExactMut(len, chunk_size) ==
  [k \in 1..(len \div chunk_size) |->
     [start |-> (k - 1) * chunk_size, len |-> chunk_size]]

\* slice::chunks_mut(chunk_size) over a slice of length len, chunk_size >= 1:
\* consecutive chunks of chunk_size elements, the last one shorter when
\* chunk_size does not divide len
ChunksMut(len, chunk_size) ==
  [k \in 1..((len + chunk_size - 1) \div chunk_size) |->
     [start |-> (k - 1) * chunk_size,
      len   |-> IF k * chunk_size <= len THEN chunk_size
                ELSE len - (k - 1) * chunk_size]]

rows_per_band == RowsPerBand(bounds[2], threads)

\* a variant of BandHeight that takes every band to be a full one
BandHeightFull(band_len, width) == rows_per_band

\* let height = band.len() / bounds.0
BandHeight(band_len, width) == band_len \div width

Init ==
  /\ bounds \in (1..MaxWidth) \X (1..MaxHeight)
  /\ threads \in 1..MaxThreads
  /\ \E r \in Rects : upper_left = r.ul /\ lower_right = r.lr
  /\ \E c \in ColorPairs : lower_col = c.lower /\ upper_col = c.upper
  /\ pixels = [k \in 1..(bounds[1] * bounds[2]) |-> Black]
  /\ bands = ChunksMut(bounds[1] * bounds[2],
                       RowsPerBand(bounds[2], threads) * bounds[1])
  /\ next_band = 0
  /\ workers = <<>>
  /\ pc = "spawn"
  /\ err = ""
  /\ img = <<>>
  /\ written = [k \in 1..(bounds[1] * bounds[2]) |-> <<>>]
  /\ call = NoCall

\* the body of `for (i, band) in bands.into_iter().enumerate()`: the band's
\* geometry is computed on the main thread and the closure is spawned
SpawnEnabled == pc = "spawn" /\ next_band < Len(bands)

Spawn ==
  /\ SpawnEnabled
  /\ LET i      == next_band
         band   == bands[i + 1]
         top    == rows_per_band * i
         height == BandHeight(band.len, bounds[1])
     IN  workers' = Append(workers,
           [state            |-> "spawned",
            band             |-> band,
            band_bounds      |-> <<bounds[1], height>>,
            band_upper_left  |-> pixel_to_point(bounds, <<0, top>>,
                                                upper_left, lower_right),
            band_lower_right |-> pixel_to_point(bounds, <<bounds[1], top + height>>,
                                                upper_left, lower_right),
            row              |-> 0,
            column           |-> 0])
  /\ next_band' = next_band + 1
  /\ UNCHANGED <<bounds, upper_left, lower_right, lower_col, upper_col, threads,
                 pixels, bands, pc, err, img, written, call>>

\* the closure given to crossbeam::scope returns: every band was spawned
ScopeBodyEndEnabled == pc = "spawn" /\ next_band = Len(bands)

ScopeBodyEnd ==
  /\ ScopeBodyEndEnabled
  /\ pc' = "join"
  /\ UNCHANGED <<bounds, upper_left, lower_right, lower_col, upper_col, threads,
                 pixels, bands, next_band, workers, err, img, written, call>>

\* a variant of Finished under which threads are never waited for
FinishedOrDetached(w) == TRUE

\* a worker thread that has run to its end, normally or by a panic
Finished(w) == w.state \in {"done", "panicked"}

\* crossbeam::scope joins every thread spawned in it before it returns; a
\* panic of a worker is propagated to the main thread
JoinEnabled == pc = "join" /\ \A b \in 1..Len(workers) : Finished(workers[b])

Join ==
  /\ JoinEnabled
  /\ IF \E b \in 1..Len(workers) : workers[b].state = "panicked"
     THEN pc' = "panicked" /\ err' = "worker"
     ELSE pc' = "assert" /\ err' = err
  /\ UNCHANGED <<bounds, upper_left, lower_right, lower_col, upper_col, threads,
                 pixels, bands, next_band, workers, img, written, call>>

\* assert!(bounds.0 * bounds.1 == pixels.len())
AssertLen ==
  /\ pc = "assert"
  /\ IF bounds[1] * bounds[2] = Len(pixels)
     THEN pc' = "image" /\ err' = err
     ELSE pc' = "panicked" /\ err' = "assert"
  /\ UNCHANGED <<bounds, upper_left, lower_right, lower_col, upper_col, threads,
                 pixels, bands, next_band, workers, img, written, call>>

\* RgbImage::from_fn(width, height, |x, y| *pixels.get(y * width + x).expect(..))
\* img[y + 1][x + 1] is the pixel at (x, y)
FromFn ==
  /\ pc = "image"
  /\ IF \A y \in 0..(bounds[2] - 1) : \A x \in 0..(bounds[1] - 1) :
          y * bounds[1] + x < Len(pixels)
     THEN /\ img' = [y \in 1..bounds[2] |->
                       [x \in 1..bounds[1] |-> pixels[(y - 1) * bounds[1] + (x - 1) + 1]]]
          /\ pc' = "save"
          /\ err' = err
     ELSE /\ img' = img
          /\ pc' = "panicked"
          /\ err' = "index"
  /\ UNCHANGED <<bounds, upper_left, lower_right, lower_col, upper_col, threads,
                 pixels, bands, next_band, workers, written, call>>

\* img.save("mandelbrot.png").expect(..): the file system decides
Save ==
  /\ pc = "save"
  /\ \/ pc' = "done" /\ err' = err
     \/ pc' = "panicked" /\ err' = "save"
  /\ UNCHANGED <<bounds, upper_left, lower_right, lower_col, upper_col, threads,
                 pixels, bands, next_band, workers, img, written, call>>

(***************************************************************************)
(* render(), run by worker b on its band.                                  *)
(***************************************************************************)
\* assert!(pixels.len() == bounds.0 * bounds.1), then the loops are entered
RenderAssertEnabled(b) == workers[b].state = "spawned"

RenderAssert(b) ==
  /\ RenderAssertEnabled(b)
  /\ LET w == workers[b]
     IN  workers' = [workers EXCEPT ![b].state =
           IF w.band.len = w.band_bounds[1] * w.band_bounds[2]
           THEN "running" ELSE "panicked"]
  /\ UNCHANGED <<bounds, upper_left, lower_right, lower_col, upper_col, threads,
                 pixels, bands, next_band, pc, err, img, written, call>>

\* the index render() stores pixel (column, row) at, within its slice
PixelIndex(band_bounds, column, row) == row * band_bounds[1] + column

\* one iteration of the inner loop: the three channel stores of one pixel
RenderPixelEnabled(b) ==
  /\ workers[b].state = "running"
  /\ workers[b].row < workers[b].band_bounds[2]
  /\ workers[b].column < workers[b].band_bounds[1]

RenderPixel(b) ==
  /\ RenderPixelEnabled(b)
  /\ LET w     == workers[b]
         k     == PixelIndex(w.band_bounds, w.column, w.row)
         last  == w.column + 1 = w.band_bounds[1]
     IN  IF k >= w.band.len
         THEN /\ workers' = [workers EXCEPT ![b].state = "panicked"]
              /\ UNCHANGED <<pixels, written>>
         ELSE /\ pixels' = [pixels EXCEPT ![w.band.start + k + 1] =
                   PixelColor(w.band_bounds, w.column, w.row,
                              w.band_upper_left, w.band_lower_right,
                              lower_col, upper_col)]
              /\ written' = [written EXCEPT ![w.band.start + k + 1] = Append(@, b)]
              /\ workers' = [workers EXCEPT
                   ![b].column = IF last THEN 0 ELSE w.column + 1,
                   ![b].row    = IF last THEN w.row + 1 ELSE w.row]
  /\ UNCHANGED <<bounds, upper_left, lower_right, lower_col, upper_col, threads,
                 bands, next_band, pc, err, img, call>>

\* the loops are exhausted: render() returns and the thread ends
RenderReturnEnabled(b) ==
  /\ workers[b].state = "running"
  /\ \/ workers[b].row >= workers[b].band_bounds[2]
     \/ workers[b].band_bounds[1] = 0

RenderReturn(b) ==
  /\ RenderReturnEnabled(b)
  /\ workers' = [workers EXCEPT ![b].state = "done"]
  /\ UNCHANGED <<bounds, upper_left, lower_right, lower_col, upper_col, threads,
                 pixels, bands, next_band, pc, err, img, written, call>>

WorkerStep(b) == RenderAssert(b) \/ RenderPixel(b) \/ RenderReturn(b)

Worker == \E b \in 1..Len(workers) : WorkerStep(b)

Next == Spawn \/ ScopeBodyEnd \/ Join \/ AssertLen \/ FromFn \/ Save \/ Worker

Spec == Init /\ [][Next]_vars

(***************************************************************************)
(* Calls of the pure functions.  The renderer is not running in these      *)
(* specifications; `call` holds the arguments and the value returned.      *)
(***************************************************************************)
NoRender ==
  /\ bounds = <<1, 1>>
  /\ threads = 1
  /\ upper_left = Complex(DZero, DZero)
  /\ lower_right = Complex(DZero, DZero)
  /\ lower_col = Black
  /\ upper_col = Black
  /\ pixels = <<>>
  /\ bands = <<>>
  /\ next_band = 0
  /\ workers = <<>>
  /\ pc = "idle"
  /\ err = ""
  /\ img = <<>>
  /\ written = <<>>

InitCall == NoRender /\ call = NoCall

Return ==
  /\ call.fn # "none"
  /\ call' = NoCall
  /\ UNCHANGED renderVars

\* ---- escape_time ----
MaxLimit == 6
GridMax == 9

Quarter(j) == FDivInt(F64, DFromInt(j), 4)

\* a grid of step 1/4 around the circle of radius 2, and two more points:
\* (2, 2^-30), outside the circle by less than f64 resolves, and the decimal
\* pair (-1.2, 1.6) of the first rectangle
EscapePoints ==
  { Complex(Quarter(j), Quarter(k)) : j \in (0 - GridMax)..GridMax,
                                       k \in (0 - GridMax)..GridMax }
  \cup { Complex(DFromInt(2), [s |-> 0, m |-> <<1>>, e |-> -30]),
         Complex(FDec(F64, -12, 1), FDec(F64, 16, 1)) }

CallEscapeTime ==
  /\ call.fn = "none"
  /\ \E c \in EscapePoints, limit \in 0..MaxLimit :
       call' = [fn |-> "escape_time", c |-> c, limit |-> limit,
                ret |-> escape_time(c, limit)]
  /\ UNCHANGED renderVars

NextEscape == CallEscapeTime \/ Return

SpecEscape == InitCall /\ [][NextEscape]_vars

\* ---- pixel_to_point ----
MaxBound == 3

Corners ==
  { [ul |-> Complex(DFromInt(-1), DFromInt(1)),
     lr |-> Complex(DFromInt(1), DFromInt(-1))],               \* -1,1   1,-1
    [ul |-> Complex(FDec(F64, -12, 1), FDec(F64, 30, 1)),
     lr |-> Complex(FDec(F64, -10, 1), FDec(F64, 2, 1))],      \* -1.2,3.0  -1.0,0.2
    [ul |-> Complex(FDec(F64, -120, 2), FDec(F64, 25, 2)),
     lr |-> Complex(FDec(F64, -1, 0), FDec(F64, 20, 2))],      \* -1.20,0.25  -1,0.20
    [ul |-> Complex(FDec(F64, -20, 1), FDec(F64, 7, 1)),
     lr |-> Complex(FDec(F64, -1, 1), FDec(F64, 3, 1))],       \* -2.0,0.7  -0.1,0.3
    [ul |-> Complex(FDec(F64, 5, 1), FDec(F64, 15, 1)),
     lr |-> Complex(FDec(F64, 15, 1), FDec(F64, 5, 1))] }      \* 0.5,1.5  1.5,0.5

\* the arguments of test_pixel_to_point
RegressionArgs ==
  [bounds |-> <<100, 100>>, pixel |-> <<25, 75>>,
   upper_left |-> Complex(DFromInt(-1), DFromInt(1)),
   lower_right |-> Complex(DFromInt(1), DFromInt(-1))]

PointArgs ==
  { [bounds |-> <<w, h>>, pixel |-> <<col, row>>,
     upper_left |-> r.ul, lower_right |-> r.lr] :
       w \in 1..MaxBound, h \in 1..MaxBound,
       col \in 0..(MaxBound + 1), row \in 0..(MaxBound + 1), r \in Corners }
  \cup { RegressionArgs }

CallPixelToPoint ==
  /\ call.fn = "none"
  /\ \E a \in PointArgs :
       /\ a.pixel[1] <= a.bounds[1] + 1
       /\ a.pixel[2] <= a.bounds[2] + 1
       /\ call' = [fn |-> "pixel_to_point", bounds |-> a.bounds, pixel |-> a.pixel,
                   upper_left |-> a.upper_left, lower_right |-> a.lower_right,
                   ret |-> pixel_to_point(a.bounds, a.pixel, a.upper_left, a.lower_right)]
  /\ UNCHANGED renderVars

NextPoint == CallPixelToPoint \/ Return

SpecPoint == InitCall /\ [][NextPoint]_vars

\* ---- parse_pair ----
(***************************************************************************)
(* A &str is a sequence of chars; each char is named by a one-element      *)
(* string, except "U+00E9" (e with acute accent), whose UTF-8 encoding has *)
(* two bytes.  Indices into a &str are byte offsets, as in Rust.           *)
(***************************************************************************)
Utf8Len(ch) == IF ch = "U+00E9" THEN 2 ELSE 1

\* the byte offset at which char k of s starts (k = Len(s) + 1: s.len())
RECURSIVE ByteOffset(_, _)
ByteOffset(s, k) ==
  IF k = 1 THEN 0 ELSE ByteOffset(s, k - 1) + Utf8Len(s[k - 1])

IsCharBoundary(s, index) ==
  \E k \in 1..(Len(s) + 1) : ByteOffset(s, k) = index

\* s.find(separator): the byte offset of the first occurrence
Find(s, separator) ==
  IF \E k \in 1..Len(s) : s[k] = separator
  THEN LET first == CHOOSE k \in 1..Len(s) :
                      /\ s[k] = separator
                      /\ \A j \in 1..(k - 1) : s[j] # separator
       IN  Some(ByteOffset(s, first))
  ELSE None

\* &s[..index] and &s[index..], for index a char boundary
CharAtOffset(s, index) == CHOOSE k \in 1..(Len(s) + 1) : ByteOffset(s, k) = index
SliceTo(s, index) == SubSeq(s, 1, CharAtOffset(s, index) - 1)
SliceFrom(s, index) == SubSeq(s, CharAtOffset(s, index), Len(s))

Ok(v) == [ok |-> TRUE, v |-> v]
Err == [ok |-> FALSE]
Panic == [panic |-> TRUE]

Digits == {"0", "1", "2", "3", "4", "5", "6", "7", "8", "9"}
DigitVal(ch) ==
  CASE ch = "0" -> 0 [] ch = "1" -> 1 [] ch = "2" -> 2 [] ch = "3" -> 3
    [] ch = "4" -> 4 [] ch = "5" -> 5 [] ch = "6" -> 6 [] ch = "7" -> 7
    [] ch = "8" -> 8 [] ch = "9" -> 9

I32Max == 2^30 - 1 + 2^30
I32Min == 0 - I32Max - 1

\* the digits of an integer, most significant first, added to acc with the
\* checked arithmetic of i32::from_str (sign = 1) or against the sign
\* (sign = -1); Err on a char that is no digit and on overflow
RECURSIVE ParseDigits(_, _, _)
ParseDigits(ds, acc, sign) ==
  IF ds = <<>> THEN Ok(acc)
  ELSE IF ds[1] \notin Digits THEN Err
  ELSE LET d == DigitVal(ds[1])
       IN  IF sign = 1
           THEN (IF acc > (I32Max - d) \div 10 THEN Err
                 ELSE ParseDigits(Tail(ds), acc * 10 + d, sign))
           ELSE (IF acc < (I32Min + d + 9) \div 10 THEN Err
                 ELSE ParseDigits(Tail(ds), acc * 10 - d, sign))

\* <i32 as FromStr>::from_str
ParseI32(t) ==
  IF t = <<>> THEN Err
  ELSE IF t[1] = "-" THEN (IF Len(t) = 1 THEN Err ELSE ParseDigits(Tail(t), 0, -1))
  ELSE IF t[1] = "+" THEN (IF Len(t) = 1 THEN Err ELSE ParseDigits(Tail(t), 0, 1))
  ELSE ParseDigits(t, 0, 1)

\* <f64 as FromStr>::from_str on texts without letters: an optional sign,
\* digits with at most one '.', at least one digit.  (The exponent, "inf"
\* and "nan" forms need letters the texts of the model do not contain.)
ParseF64(t) ==
  LET signed == t # <<>> /\ t[1] \in {"+", "-"}
      body   == IF signed THEN Tail(t) ELSE t
      dots   == {k \in 1..Len(body) : body[k] = "."}
      digits == SelectSeq(body, LAMBDA ch : ch # ".")
      frac   == IF dots = {} THEN 0
                ELSE Len(body) - (CHOOSE k \in dots : TRUE)
      n      == ParseDigits(digits, 0, 1)
  IN  IF digits = <<>> \/ Cardinality(dots) > 1 \/ ~n.ok THEN Err
      ELSE IF signed /\ t[1] = "-" THEN Ok(DNeg(FDec(F64, n.v, frac)))
      ELSE Ok(FDec(F64, n.v, frac))

FromStr(T, t) == IF T = "i32" THEN ParseI32(t) ELSE ParseF64(t)

parse_pair(T, s, separator) ==
  LET found == Find(s, separator)
  IN  IF ~found.some THEN None
      ELSE LET index == found.v
           IN  IF ~IsCharBoundary(s, index + 1) THEN Panic
               ELSE LET l == FromStr(T, SliceTo(s, index))
                        r == FromStr(T, SliceFrom(s, index + 1))
                    IN  IF l.ok /\ r.ok THEN Some(<<l.v, r.v>>) ELSE None

MaxLen == 3

Alphabet == {"1", "2", ",", "-", ".", "U+00E9"}
Separators == {",", "x", "-", "1", "U+00E9"}

RECURSIVE StringsOfLen(_)
StringsOfLen(n) ==
  IF n = 0 THEN {<<>>}
  ELSE {Append(t, ch) : t \in StringsOfLen(n - 1), ch \in Alphabet}

\* the texts of test_parse_pair
TestTexts ==
  { <<>>,
    <<"1", "0">>,
    <<",", "1", "0">>,
    <<"1", "0", ",", "2", "0">>,
    <<"1", "0", ",", "2", "0", "x", "y">>,
    <<"0", ".", "5", "x">>,
    <<"0", ".", "5", "x", "1", ".", "5">> }

Texts == TestTexts \cup UNION {StringsOfLen(n) : n \in 0..MaxLen}

CallParsePair ==
  /\ call.fn = "none"
  /\ \E T \in {"i32", "f64"}, s \in Texts, separator \in Separators :
       call' = [fn |-> "parse_pair", T |-> T, s |-> s, separator |-> separator,
                ret |-> parse_pair(T, s, separator)]
  /\ UNCHANGED renderVars

NextParse == CallParsePair \/ Return

SpecParse == InitCall /\ [][NextParse]_vars

(***************************************************************************)
(* Properties of escape_time                                               *)
(***************************************************************************)
DAbs(x) == [x EXCEPT !.s = 0]
DMax(x, y) == IF DGt(x, y) THEN x ELSE y
DLe(x, y) == DCmp(x, y) <= 0

\* re^2 + im^2 as a real number, and as f64 arithmetic computes it
RealNormSqr(c) == DAdd(DMul(c.re, c.re), DMul(c.im, c.im))
F64NormSqr(c) == FAdd(F64, FMul(F64, c.re, c.re), FMul(F64, c.im, c.im))
Four == DFromInt(4)

\* the k-th iterate of z <- z*z + c from z = 0
RECURSIVE Iterate(_, _)
Iterate(c, k) ==
  IF k = 0 THEN Complex(DZero, DZero)
  ELSE LET z == Iterate(c, k - 1) IN CAdd(CMul(z, z), c)

IsEscapeCall == call.fn = "escape_time"

\* C4 as stated: every c with re^2 + im^2 > 4 gives Some(0) at every limit,
\* and a c with re^2 + im^2 = 4 does not give Some(0).
C4_AsStated ==
  IsEscapeCall =>
    /\ DGt(RealNormSqr(call.c), Four) => call.ret = Some(0)
    /\ RealNormSqr(call.c) = Four => call.ret # Some(0)

\* C4 amended: every c whose squared magnitude as f64 computes it
\* (re*re + im*im, each operation rounded) exceeds 4.0 gives Some(0) at every
\* limit >= 1 (at limit 0 the loop body never runs and the result is None);
\* a c whose computed squared magnitude is not above 4.0, in particular one
\* with |c| exactly 2, never gives Some(0).
C4_ImmediateEscape ==
  IsEscapeCall =>
    /\ (call.limit >= 1 /\ DGt(F64NormSqr(call.c), Four)) => call.ret = Some(0)
    /\ call.limit = 0 => call.ret = None
    /\ ~DGt(F64NormSqr(call.c), Four) => call.ret # Some(0)
    /\ RealNormSqr(call.c) = Four => call.ret # Some(0)

C4_Witness ==
  /\ IsEscapeCall
  /\ call.limit >= 1
  /\ DGt(F64NormSqr(call.c), Four)
  /\ call.c.im # DZero
  /\ call.ret = Some(0)

\* C5: escape_time is monotonic in limit.  A result Some(i) has i < limit
\* and is the result at every larger limit; a Some result at a smaller limit
\* is the result at this limit; None is returned exactly when none of the
\* first `limit` iterates has squared magnitude > 4, and Some(i) names the
\* first iterate that has.
C5_MonotonicInLimit ==
  IsEscapeCall =>
    LET c == call.c
        limit == call.limit
        ret == call.ret
    IN  /\ ret.some =>
             /\ ret.v >= 0 /\ ret.v < limit
             /\ \A l2 \in limit..(MaxLimit + 1) : escape_time(c, l2) = ret
             /\ DGt(F64NormSqr(Iterate(c, ret.v + 1)), Four)
             /\ \A k \in 1..ret.v : ~DGt(F64NormSqr(Iterate(c, k)), Four)
        /\ \A l1 \in 0..limit :
             escape_time(c, l1).some => escape_time(c, l1) = ret
        /\ (ret = None) <=>
             (\A k \in 1..limit : ~DGt(F64NormSqr(Iterate(c, k)), Four))

C5_Witness ==
  /\ IsEscapeCall
  /\ call.ret.some
  /\ call.ret.v >= 2
  /\ call.limit < MaxLimit
  /\ escape_time(call.c, call.ret.v) = None

(***************************************************************************)
(* Properties of pixel_to_point                                            *)
(***************************************************************************)
IsPointCall == call.fn = "pixel_to_point"

\* 2^-48 times the larger corner magnitude: a few units in the last place
Tolerance(a, b) == DMul(DMax(DAbs(a), DAbs(b)), [s |-> 0, m |-> <<1>>, e |-> -48])

\* |x - y| <= n * tol
Within(x, y, n, tol) == DLe(DAbs(DSub(x, y)), DMul(DFromInt(n), tol))

\* (re - ul.re) * width against col * (lr.re - ul.re), and the same for the
\* flipped imaginary axis: the affine map without a division
AffineRe(a, ret) == DMul(DSub(ret.re, a.upper_left.re), DFromInt(a.bounds[1]))
TargetRe(a) == DMul(DFromInt(a.pixel[1]), DSub(a.lower_right.re, a.upper_left.re))
AffineIm(a, ret) == DMul(DSub(a.upper_left.im, ret.im), DFromInt(a.bounds[2]))
TargetIm(a) == DMul(DFromInt(a.pixel[2]), DSub(a.upper_left.im, a.lower_right.im))

MinusHalf == [s |-> 1, m |-> <<1>>, e |-> -1]

IsRegression(a) ==
  /\ a.bounds = RegressionArgs.bounds
  /\ a.pixel = RegressionArgs.pixel
  /\ a.upper_left = RegressionArgs.upper_left
  /\ a.lower_right = RegressionArgs.lower_right

CornerExact(a) ==
  LET dre == DSub(a.lower_right.re, a.upper_left.re)
      dim == DSub(a.upper_left.im, a.lower_right.im)
  IN  /\ Representable(F64, dre)
      /\ Representable(F64, dim)
      /\ Representable(F64, DMul(DFromInt(a.bounds[1]), dre))
      /\ Representable(F64, DMul(DFromInt(a.bounds[2]), dim))

Width == bounds[1]
Height == bounds[2]
Spawned == 1..Len(workers)
AllSpawned == pc \notin {"spawn", "idle"}
PastJoin == pc \in {"assert", "image", "save", "done", "panicked"}
Rendering == pc # "idle"

\* height / workerCount + 1, and the exact ceiling of height / workerCount
ClaimedRowsPerBand == Height \div threads + 1
CeilRows == (Height + threads - 1) \div threads

BandRows(b) == workers[b].band_bounds[2]
BandTop(b) == ClaimedRowsPerBand * (b - 1)
RowOf(k) == (k - 1) \div Width

\* C1: the bands partition the buffer into whole rows, band i covering rows
\* [i*rows_per_band, i*rows_per_band + h_i); once every band is spawned the
\* row ranges cover [0, height) with no gap and no overlap; every element is
\* stored into at most once, by the band that owns its row, and exactly once
\* when the workers are joined.
C1_BandsPartitionBuffer ==
  Rendering =>
    /\ \A b \in Spawned :
         /\ workers[b].band.start = BandTop(b) * Width
         /\ workers[b].band.len = BandRows(b) * Width
         /\ BandTop(b) + BandRows(b) <= Height
    /\ AllSpawned =>
         \A row \in 0..(Height - 1) :
           Cardinality({b \in Spawned :
                          BandTop(b) <= row /\ row < BandTop(b) + BandRows(b)}) = 1
    /\ \A k \in 1..(Width * Height) :
         /\ Len(written[k]) <= 1
         /\ \A j \in 1..Len(written[k]) :
              LET b == written[k][j]
              IN  BandTop(b) <= RowOf(k) /\ RowOf(k) < BandTop(b) + BandRows(b)
    /\ (PastJoin /\ err = "") =>
         \A k \in 1..(Width * Height) : Len(written[k]) = 1

C1_Witness ==
  /\ pc = "done"
  /\ Len(workers) >= 2
  /\ Width >= 2
  /\ BandRows(Len(workers)) < BandRows(1)
  /\ \A k \in 1..(Width * Height) : Len(written[k]) = 1

\* the buffer render() fills when it is given the whole image as one band
\* with the corners as they are
DirectRender ==
  [k \in 1..(Width * Height) |->
     PixelColor(bounds, (k - 1) % Width, (k - 1) \div Width,
                upper_left, lower_right, lower_col, upper_col)]

\* the buffer main() produces with threads = 1: one band of all the rows,
\* its corners computed by pixel_to_point
OneWorkerRender ==
  [k \in 1..(Width * Height) |->
     PixelColor(bounds, (k - 1) % Width, (k - 1) \div Width,
                pixel_to_point(bounds, <<0, 0>>, upper_left, lower_right),
                pixel_to_point(bounds, <<Width, Height>>, upper_left, lower_right),
                lower_col, upper_col)]

\* C2: the final buffer is the one a single worker produces, and the one a
\* single-band render with the global pixel_to_point mapping produces,
\* whatever the worker count and the scheduling order.
C2_SameBufferForEveryWorkerCount ==
  pc = "done" => pixels = OneWorkerRender /\ pixels = DirectRender

\* C3: every step of the program keeps the join before the return.  A step
\* that takes the main thread past the join is taken only when every band
\* worker was spawned and has finished; past the join no worker moves and
\* the buffer does not change; the step that builds the image reads the
\* buffer with every worker done; in the state a step starts from, a worker
\* that has not finished has a step of its own enabled (it waits for
\* nobody), the spawning loop is never blocked, and at the join the main
\* thread is blocked exactly while some worker has not finished.
C3_JoinBeforeReturn ==
  [][/\ PastJoin' =>
          /\ Len(workers') = Len(bands')
          /\ \A b \in 1..Len(workers') : workers'[b].state \in {"done", "panicked"}
     /\ PastJoin => (pixels' = pixels /\ workers' = workers)
     /\ img' # img =>
          /\ \A b \in Spawned : workers[b].state = "done"
          /\ Len(workers) = Len(bands)
          /\ pixels' = pixels
     /\ \A b \in Spawned :
          workers[b].state \in {"spawned", "running"} =>
            RenderAssertEnabled(b) \/ RenderPixelEnabled(b) \/ RenderReturnEnabled(b)
     /\ pc = "spawn" => SpawnEnabled \/ ScopeBodyEndEnabled
     /\ pc = "join" =>
          (JoinEnabled <=> \A b \in Spawned : workers[b].state \in {"done", "panicked"})
    ]_vars

C3_Witness ==
  /\ pc = "image"
  /\ Len(workers) >= 2
  /\ \A b \in Spawned : workers[b].state = "done"
  /\ \A k \in 1..(Width * Height) : written[k] # <<>>

\* C8 as stated: the row counts of any two bands differ by at most one, and
\* rows_per_band exceeds the exact ceiling by at most one.
C8_AsStated ==
  Rendering =>
    /\ \A b1, b2 \in Spawned : BandRows(b1) - BandRows(b2) <= 1
    /\ ClaimedRowsPerBand - CeilRows <= 1

\* C8 amended: every band but the last has exactly rows_per_band rows and
\* the last band has the remaining rows, between 1 and rows_per_band, so the
\* row counts of two bands differ by at most rows_per_band - 1 (which can be
\* more than one row); rows_per_band exceeds the exact ceiling by at most
\* one, and by one exactly when workerCount divides height.
C8_BandSizes ==
  Rendering =>
    /\ \A b \in Spawned :
         IF b < Len(bands)
         THEN BandRows(b) = ClaimedRowsPerBand
         ELSE /\ BandRows(b) = Height - (Len(bands) - 1) * ClaimedRowsPerBand
              /\ 1 <= BandRows(b)
              /\ BandRows(b) <= ClaimedRowsPerBand
    /\ \A b1, b2 \in Spawned : BandRows(b1) - BandRows(b2) <= ClaimedRowsPerBand - 1
    /\ ClaimedRowsPerBand - CeilRows \in {0, 1}
    /\ (ClaimedRowsPerBand - CeilRows = 1) <=> (Height % threads = 0)

C8_Witness ==
  /\ AllSpawned
  /\ Len(workers) >= 2
  /\ BandRows(1) - BandRows(Len(workers)) >= 2

\* C9: one worker is spawned per band; the number of bands is at least 1
\* and at most workerCount; no band is empty.
C9_WorkerCount ==
  Rendering =>
    /\ Len(workers) = next_band
    /\ Len(workers) <= Len(bands)
    /\ AllSpawned => Len(workers) = Len(bands)
    /\ 1 <= Len(bands)
    /\ Len(bands) <= threads
    /\ \A k \in 1..Len(bands) : bands[k].len >= Width
    /\ \A b \in Spawned : BandRows(b) >= 1 /\ workers[b].band = bands[b]

C9_Witness ==
  /\ pc = "join"
  /\ Len(workers) >= 2
  /\ Len(workers) < threads

\* C10: every band slice is a whole number of rows, so the assertion of
\* render() holds for every band and every store lands inside the band's
\* slice; no worker panics, and the assertion after the join holds.
C10_AssertionsHold ==
  Rendering =>
    /\ \A b \in Spawned :
         /\ workers[b].band.len % Width = 0
         /\ workers[b].band.len = workers[b].band_bounds[1] * workers[b].band_bounds[2]
         /\ workers[b].band_bounds = <<Width, workers[b].band.len \div Width>>
         /\ workers[b].state # "panicked"
         /\ (workers[b].state = "running" /\ workers[b].row < BandRows(b)) =>
              workers[b].row * Width + workers[b].column < workers[b].band.len
    /\ \A k \in 1..Len(written) : \A j \in 1..Len(written[k]) :
         LET band == workers[written[k][j]].band
         IN  band.start < k /\ k <= band.start + band.len
    /\ err \notin {"assert", "index", "worker"}
    /\ pc \in {"image", "save", "done"} => Width * Height = Len(pixels)

C10_Witness ==
  /\ pc = "image"
  /\ Len(workers) >= 2
  /\ Width >= 2
  /\ workers[Len(workers)].band.len < workers[1].band.len
  /\ workers[Len(workers)].state = "done"

(***************************************************************************)
(* Properties of parse_pair                                                *)
(***************************************************************************)
IsParseCall == call.fn = "parse_pair"

Contains(t, ch) == \E k \in 1..Len(t) : t[k] = ch
FirstAt(t, ch) == CHOOSE k \in 1..Len(t) :
                    t[k] = ch /\ \A j \in 1..(k - 1) : t[j] # ch
\* the text before the first occurrence of ch, and all the text after it
Before(t, ch) == SubSeq(t, 1, FirstAt(t, ch) - 1)
After(t, ch) == SubSeq(t, FirstAt(t, ch) + 1, Len(t))

Half == [s |-> 0, m |-> <<1>>, e |-> -1]
OneAndHalf == [s |-> 0, m |-> <<3>>, e |-> -1]

\* C7: parse_pair returns Some((l, r)) exactly when s contains the separator
\* and the text before its first occurrence and all the text after it both
\* parse as T, and None otherwise; the cases of test_parse_pair; and None
\* for every input whose right part still contains the separator.
C7_AsStated ==
  IsParseCall =>
    LET T == call.T
        s == call.s
        sep == call.separator
        ret == call.ret
        good == /\ Contains(s, sep)
                /\ FromStr(T, Before(s, sep)).ok
                /\ FromStr(T, After(s, sep)).ok
    IN  /\ good => ret = Some(<<FromStr(T, Before(s, sep)).v,
                                FromStr(T, After(s, sep)).v>>)
        /\ ~good => ret = None
        /\ (Contains(s, sep) /\ Contains(After(s, sep), sep)) => ret = None
        /\ (T = "i32" /\ sep = ",") =>
             /\ s = <<>> => ret = None
             /\ s = <<"1", "0">> => ret = None
             /\ s = <<",", "1", "0">> => ret = None
             /\ s = <<"1", "0", ",", "2", "0">> => ret = Some(<<10, 20>>)
             /\ s = <<"1", "0", ",", "2", "0", "x", "y">> => ret = None
        /\ (T = "f64" /\ sep = "x") =>
             /\ s = <<"0", ".", "5", "x">> => ret = None
             /\ s = <<"0", ".", "5", "x", "1", ".", "5">> =>
                  ret = Some(<<Half, OneAndHalf>>)

====
